---- MODULE Spec2Model ----
(***************************************************************************)
(* The graph update and cascade protocol of CrateMetadataUpdater           *)
(* (src/src/metadata_updater.rs): update_metadata links the crate to its   *)
(* tracked dependencies, commits its own record, removes stale consumer    *)
(* edges and asks for rebuilds of its recorded consumers.                  *)
(*                                                                         *)
(* Strings that go through the key codec are sequences of one-character    *)
(* strings, so that formatting and the regular expression are computed.    *)
(* The DynamoDB table is a function from structured primary keys to items; *)
(* an item is a function from the names of its non-key attributes to their *)
(* values (an absent attribute is outside the item's domain).  The key     *)
(* attributes package_name and version are present exactly when the item   *)
(* exists, so attribute_exists(package_name) is membership in DOMAIN.      *)
(* Every store call and every start_build call is one atomic step.         *)
(***************************************************************************)
EXTENDS Integers, Sequences, FiniteSets, TLC

VARIABLES
  store,    \* the package metadata table: structured key -> item
  runs,     \* one record per invocation slot of update_metadata
  nruns,    \* number of invocations started so far
  hist,     \* history of the sequential specification (previous invocation)
  codec     \* the key codec under test (specification SpecCodec)

vars == <<store, runs, nruns, hist, codec>>

(***************************************************************************)
(* Bounds                                                                  *)
(***************************************************************************)
\* invocations of update_metadata per behaviour of Spec
MaxRuns == 2
\* invocations of update_metadata per behaviour of SpecSeq
MaxSeqRuns == 2
\* longest component string handed to the key codec in SpecCodec
MaxLen == 2

(***************************************************************************)
(* Constants of the program                                                *)
(***************************************************************************)
BUILD_SYSTEM == <<"r", "u", "s", "t">>
KEY_CODE_BUILD_PROJECT_NAME == "code_build_project_name"
KEY_CONSUMERS == "consumers"
KEY_DEPENDENCIES == "dependencies"
KEY_BUILD_SYSTEM_AND_NAME_DELIMITER == "/"
KEY_NAME_AND_VERSION_DELIMITER == ":"
\* the one character that '.' of the regex crate does not match
LineFeed == "\n"

(***************************************************************************)
(* Package Key Codec                                                       *)
(***************************************************************************)
PackageKey(build_system, name, version) ==
  [build_system |-> build_system, name |-> name, version |-> version]

\* (mutant) the name and version delimiter is written in both places
to_fq_key_one_delimiter(k) ==
  k.build_system \o <<KEY_NAME_AND_VERSION_DELIMITER>> \o k.name
    \o <<KEY_NAME_AND_VERSION_DELIMITER>> \o k.version

to_fq_key(k) ==
  k.build_system \o <<KEY_BUILD_SYSTEM_AND_NAME_DELIMITER>> \o k.name
    \o <<KEY_NAME_AND_VERSION_DELIMITER>> \o k.version

ddb_primary_key(k) ==
  [package_name |-> k.build_system \o <<"/">> \o k.name, version |-> k.version]

get_encoded_primary_key(name, version) ==
  BUILD_SYSTEM \o <<"/">> \o name \o <<KEY_NAME_AND_VERSION_DELIMITER>> \o version

\* s[a..b] is a non-empty run of characters that '.' matches
DotPlus(s, a, b) == a <= b /\ \A t \in a..b : s[t] # LineFeed

\* the first index from which s runs to index t without a line feed
LineStart(s, t) == CHOOSE i \in 1..t :
  /\ \A u \in i..t : s[u] # LineFeed
  /\ i = 1 \/ s[i - 1] = LineFeed

\* the last index to which s runs from index t without a line feed
LineEnd(s, t) == CHOOSE e \in t..Len(s) :
  /\ \A u \in t..e : s[u] # LineFeed
  /\ e = Len(s) \/ s[e + 1] = LineFeed

\* The places <<p, q>> of a "/" and a later ":" between which, before which and
\* after which "(.+)/(.+):(.+)" finds its three non-empty groups.
PkgKeyMatches(s) ==
  { m \in (1..Len(s)) \X (1..Len(s)) :
      /\ s[m[1]] = "/" /\ s[m[2]] = ":"
      /\ m[1] >= 2 /\ m[2] < Len(s)
      /\ DotPlus(s, m[1] - 1, m[1] - 1)
      /\ DotPlus(s, m[1] + 1, m[2] - 1)
      /\ DotPlus(s, m[2] + 1, m[2] + 1) }

\* Regex::captures of PKG_KEY_REGEX, unanchored: the leftmost match, each greedy
\* group as long as the rest of the pattern allows, the earlier group first (the
\* regex crate's leftmost-first semantics).  <<>> is None, else <<i, p, q, e>>:
\* group 1 is s[i..p-1], group 2 is s[p+1..q-1], group 3 is s[q+1..e].
package_key_pattern(s) ==
  LET ms == PkgKeyMatches(s)
      Better(a, b) ==
        \/ LineStart(s, a[1] - 1) < LineStart(s, b[1] - 1)
        \/ LineStart(s, a[1] - 1) = LineStart(s, b[1] - 1) /\ a[1] > b[1]
        \/ a[1] = b[1] /\ a[2] > b[2]
  IN  IF ms = {} THEN <<>>
      ELSE LET m == CHOOSE x \in ms : \A o \in ms \ {x} : Better(x, o)
           IN  <<LineStart(s, m[1] - 1), m[1], m[2], LineEnd(s, m[2] + 1)>>

\* Result<PackageKey, Error>
from_fq_key(s) ==
  LET m == package_key_pattern(s)
  IN  IF m = <<>> THEN [ok |-> FALSE]
      ELSE [ok |-> TRUE,
            key |-> PackageKey(SubSeq(s, m[1], m[2] - 1),
                               SubSeq(s, m[2] + 1, m[3] - 1),
                               SubSeq(s, m[3] + 1, m[4]))]

(***************************************************************************)
(* Inputs: crates, manifests, build projects                               *)
(***************************************************************************)
Version == <<"1">>
\* the crates of the sequential specification, and those of the
\* specification with overlapping invocations
Names == { <<"a">>, <<"b">>, <<"c">> }
ConcNames == { <<"a">>, <<"b">> }
\* a dependency that is declared without a version
Unversioned == <<"u">>

Crate(name) == [name |-> name, version |-> Version]
Crates == { Crate(n) : n \in Names }
ConcCrates == { Crate(n) : n \in ConcNames }

\* crate_helper::Dependency; version is an Option: <<>> is None, <<v>> is Some(v)
Dependency(name, version) == [name |-> name, version |-> version]

\* CrateHelper::dependencies comes from the manifest's map of dependency
\* names, so no name occurs twice
ManifestsOver(names) ==
  { { Dependency(n, <<Version>>) : n \in ns } \cup u :
      ns \in SUBSET names, u \in { {}, {Dependency(Unversioned, <<>>)} } }
Manifests == ManifestsOver(Names)
ConcManifests == ManifestsOver(ConcNames)

\* BuildDetails::build_project_name, from the environment of the invocation
Projects == {"proj-1", "proj-2"}

RunIds == {1, 2}

(***************************************************************************)
(* The store: DynamoDB UpdateItem / GetItem as used by the program         *)
(***************************************************************************)
EmptyStore == [k \in {} |-> <<>>]
EmptyItem == [a \in {} |-> {}]

PutAttr(item, a, v) == [x \in DOMAIN item \cup {a} |-> IF x = a THEN v ELSE item[x]]
RemoveAttr(item, a) == [x \in DOMAIN item \ {a} |-> item[x]]
WriteItem(st, key, item) == [k \in DOMAIN st \cup {key} |-> IF k = key THEN item ELSE st[k]]

\* (mutant) the update is dropped
ddb_add_consumer_lost(st, key, consumer_key) == st

\* "ADD consumers :d" under attribute_exists(package_name): a set union that
\* creates the attribute when it is absent
ddb_add_consumer(st, key, consumer_key) ==
  LET item == st[key]
      cur == IF KEY_CONSUMERS \in DOMAIN item THEN item[KEY_CONSUMERS] ELSE {}
  IN  WriteItem(st, key, PutAttr(item, KEY_CONSUMERS, cur \cup {consumer_key}))

\* (mutant) the update is dropped
ddb_delete_consumer_lost(st, key, consumer_key) == st

\* "DELETE consumers :d" under attribute_exists(package_name): a set
\* difference; a set that becomes empty is removed with its attribute
ddb_delete_consumer(st, key, consumer_key) ==
  LET item == st[key]
  IN  IF KEY_CONSUMERS \notin DOMAIN item THEN st
      ELSE IF item[KEY_CONSUMERS] \ {consumer_key} = {}
           THEN WriteItem(st, key, RemoveAttr(item, KEY_CONSUMERS))
           ELSE WriteItem(st, key,
                          PutAttr(item, KEY_CONSUMERS, item[KEY_CONSUMERS] \ {consumer_key}))

\* (mutant) the string set is written also when it is empty
dep_attribute_update_put(item, tracked_deps) ==
  PutAttr(item, KEY_DEPENDENCIES, tracked_deps)

\* the AttributeValueUpdate of KEY_DEPENDENCIES: Delete when tracked_deps is
\* empty, otherwise Put of the string set
dep_attribute_update(item, tracked_deps) ==
  IF tracked_deps = {} THEN RemoveAttr(item, KEY_DEPENDENCIES)
  ELSE PutAttr(item, KEY_DEPENDENCIES, tracked_deps)

\* (mutant) the write replaces the whole item
updated_item_replaced(old, build_project_name, tracked_deps) ==
  dep_attribute_update(
    PutAttr(EmptyItem, KEY_CODE_BUILD_PROJECT_NAME, build_project_name),
    tracked_deps)

\* the item update_project writes: Put of code_build_project_name and the
\* dependencies update, on the old item or on a new one
updated_item(old, build_project_name, tracked_deps) ==
  dep_attribute_update(
    PutAttr(IF old = <<>> THEN EmptyItem ELSE old[1],
            KEY_CODE_BUILD_PROJECT_NAME, build_project_name),
    tracked_deps)

\* ReturnValue::AllOld / GetItem: <<>> when there is no item, else <<item>>
get_item(st, key) == IF key \in DOMAIN st THEN <<st[key]>> ELSE <<>>

\* an Option<item>'s string-set attribute, {} when the item or the attribute
\* is absent (the "if let Some" chains of update_project)
old_set(old, attr) ==
  IF old # <<>> /\ attr \in DOMAIN old[1] THEN old[1][attr] ELSE {}

(***************************************************************************)
(* One invocation of update_metadata                                       *)
(***************************************************************************)
NoCrate == [name |-> <<>>, version |-> <<>>]

\* at is the stage in which an invocation that returned Err met its error
IdleRun ==
  [pc |-> "idle", crt |-> NoCrate, bpn |-> "", at |-> "",
   linkTodo |-> {}, tracked |-> {}, old |-> <<>>, rmTodo |-> {},
   rbTodo |-> {}, rbStart |-> {}, started |-> {}]

Finished(run) == run.pc \in {"idle", "done", "failed"}

\* the invocation returned Err: its futures are dropped
failed(run) == [IdleRun EXCEPT !.pc = "failed", !.crt = run.crt, !.at = run.pc]

\* PackageKey::from(crt)
pkg_key_of(run) == PackageKey(BUILD_SYSTEM, run.crt.name, run.crt.version)

\* (mutant) every old dependency is taken for stale
stale_deps_all(old_deps_set, tracked_deps_set) == old_deps_set

\* old_deps_set.difference(&tracked_deps_set)
stale_deps(old_deps_set, tracked_deps_set) == old_deps_set \ tracked_deps_set

\* the record rebuild_consumer reads for a consumer
rebuild_lookup_key(pkg_key, consumer_key) == ddb_primary_key(pkg_key)

\* the if-let chain of rebuild_consumer: the item exists, has a dependencies
\* string set containing primary_key and a code_build_project_name
needs_rebuild(item, primary_key) ==
  /\ item # <<>>
  /\ KEY_DEPENDENCIES \in DOMAIN item[1]
  /\ primary_key \in item[1][KEY_DEPENDENCIES]
  /\ KEY_CODE_BUILD_PROJECT_NAME \in DOMAIN item[1]

\* the stage reached once the removals are joined: one rebuild_consumer per
\* previously recorded consumer, or the end of the run
enter_rebuild(run) ==
  LET consumers == old_set(run.old, KEY_CONSUMERS)
  IN  IF consumers = {} THEN [run EXCEPT !.pc = "done"]
      ELSE [run EXCEPT !.pc = "rebuild", !.rbTodo = consumers]

\* the stage reached once the old item is returned by the commit
enter_reconcile(run) ==
  LET old_deps == stale_deps(old_set(run.old, KEY_DEPENDENCIES), run.tracked)
      decoded == { from_fq_key(d) : d \in old_deps }
  IN  IF \E x \in decoded : ~x.ok THEN failed(run)
      ELSE IF decoded = {} THEN enter_rebuild(run)
      ELSE [run EXCEPT !.pc = "rm", !.rmTodo = { x.key : x \in decoded }]

\* (mutant) the join of the rebuild_consumer futures never completes
join_rebuild_never(run) == run

\* the run ends when no rebuild_consumer future is left
join_rebuild(run) ==
  IF run.rbTodo = {} /\ run.rbStart = {} THEN [run EXCEPT !.pc = "done"] ELSE run

(***************************************************************************)
(* History of the sequential specifications: the initial table, the table  *)
(* at the start of the current (or last) invocation, its input, the        *)
(* dependencies its link step found untracked and, when it re-invokes the  *)
(* input of the invocation before it, how that one ended and the tables it *)
(* started from and left.  Spec leaves the history off.                    *)
(***************************************************************************)
NoInput == [crt |-> NoCrate, deps |-> {}, bpn |-> ""]
HistOff == [on |-> FALSE]
HistInit(st) ==
  [on |-> TRUE, origin |-> st, store0 |-> st, input |-> NoInput,
   untracked |-> {}, retry |-> <<>>]

RunBound == IF hist.on THEN MaxSeqRuns ELSE MaxRuns

TrackStart(input, retry) ==
  hist' = IF hist.on
          THEN [hist EXCEPT !.store0 = store, !.input = input, !.untracked = {},
                            !.retry = retry]
          ELSE hist

TrackStep(skipped) ==
  hist' = IF hist.on THEN [hist EXCEPT !.untracked = @ \cup skipped] ELSE hist

(***************************************************************************)
(* The steps of update_metadata                                            *)
(***************************************************************************)
\* CrateHelper::from_path succeeded: the link futures are created
update_metadata(r, crt, deps, bpn) ==
  /\ Finished(runs[r]) /\ nruns < RunBound
  /\ runs' = [runs EXCEPT ![r] =
       [IdleRun EXCEPT !.pc = "link", !.crt = crt, !.bpn = bpn, !.linkTodo = deps]]
  /\ nruns' = nruns + 1
  /\ UNCHANGED <<store, codec>>
  /\ TrackStart([crt |-> crt, deps |-> deps, bpn |-> bpn], <<>>)

\* update_metadata is invoked again with the input of the invocation that
\* just ended (a retry, or a second run of the same build)
retry_update_metadata(r) ==
  /\ hist.on /\ hist.input # NoInput
  /\ runs[r].pc \in {"done", "failed"} /\ nruns < RunBound
  /\ runs' = [runs EXCEPT ![r] =
       [IdleRun EXCEPT !.pc = "link", !.crt = hist.input.crt, !.bpn = hist.input.bpn,
                       !.linkTodo = hist.input.deps]]
  /\ nruns' = nruns + 1
  /\ UNCHANGED <<store, codec>>
  /\ TrackStart(hist.input,
                <<[status |-> runs[r].pc, store0 |-> hist.store0, store1 |-> store]>>)

\* CrateHelper::from_path failed: Err before any store call
manifest_error(r) ==
  /\ Finished(runs[r]) /\ nruns < RunBound
  /\ runs' = [runs EXCEPT ![r] = failed(IdleRun)]
  /\ nruns' = nruns + 1
  /\ UNCHANGED <<store, codec>>
  /\ TrackStart(NoInput, <<>>)

\* add_consumer_to_dependency, dep.version is None
add_consumer_unversioned(r) ==
  /\ runs[r].pc = "link"
  /\ \E dep \in runs[r].linkTodo :
    /\ dep.version = <<>>
    /\ runs' = [runs EXCEPT ![r].linkTodo = @ \ {dep}]
    /\ UNCHANGED <<store, nruns, codec>>
    /\ TrackStep({})

\* add_consumer_to_dependency, the conditional ADD succeeded
add_consumer_ok(r) ==
  /\ runs[r].pc = "link"
  /\ \E dep \in runs[r].linkTodo :
    /\ dep.version # <<>>
    /\ LET consumer_key == get_encoded_primary_key(runs[r].crt.name, runs[r].crt.version)
           fq_dep_name == get_encoded_primary_key(dep.name, dep.version[1])
           dep_key == PackageKey(BUILD_SYSTEM, dep.name, dep.version[1])
       IN  /\ ddb_primary_key(dep_key) \in DOMAIN store
           /\ store' = ddb_add_consumer(store, ddb_primary_key(dep_key), consumer_key)
           /\ runs' = [runs EXCEPT ![r].linkTodo = @ \ {dep},
                                   ![r].tracked = @ \cup {fq_dep_name}]
    /\ UNCHANGED <<nruns, codec>>
    /\ TrackStep({})

\* (mutant) the ADD carries no condition and creates the record it updates
add_consumer_not_tracked_upsert(r) ==
  /\ runs[r].pc = "link"
  /\ \E dep \in runs[r].linkTodo :
    /\ dep.version # <<>>
    /\ LET key == ddb_primary_key(PackageKey(BUILD_SYSTEM, dep.name, dep.version[1]))
       IN  /\ key \notin DOMAIN store
           /\ store' = ddb_add_consumer(WriteItem(store, key, EmptyItem), key,
                                        get_encoded_primary_key(runs[r].crt.name, runs[r].crt.version))
    /\ runs' = [runs EXCEPT ![r].linkTodo = @ \ {dep},
                            ![r].tracked = @ \cup {get_encoded_primary_key(dep.name, dep.version[1])}]
    /\ UNCHANGED <<nruns, codec>>
    /\ TrackStep({dep})

\* (mutant) a failed condition is answered with Err
add_consumer_not_tracked_fatal(r) ==
  /\ runs[r].pc = "link"
  /\ \E dep \in runs[r].linkTodo :
    /\ dep.version # <<>>
    /\ ddb_primary_key(PackageKey(BUILD_SYSTEM, dep.name, dep.version[1])) \notin DOMAIN store
    /\ runs' = [runs EXCEPT ![r] = failed(runs[r])]
    /\ UNCHANGED <<store, nruns, codec>>
    /\ TrackStep({dep})

\* (mutant) a failed condition is answered with Some(fq_dep_name)
add_consumer_not_tracked_as_some(r) ==
  /\ runs[r].pc = "link"
  /\ \E dep \in runs[r].linkTodo :
    /\ dep.version # <<>>
    /\ ddb_primary_key(PackageKey(BUILD_SYSTEM, dep.name, dep.version[1])) \notin DOMAIN store
    /\ runs' = [runs EXCEPT ![r].linkTodo = @ \ {dep},
                            ![r].tracked = @ \cup {get_encoded_primary_key(dep.name, dep.version[1])}]
    /\ UNCHANGED <<store, nruns, codec>>
    /\ TrackStep({dep})

\* add_consumer_to_dependency, ConditionalCheckFailed: the dependency is not tracked
add_consumer_not_tracked(r) ==
  /\ runs[r].pc = "link"
  /\ \E dep \in runs[r].linkTodo :
    /\ dep.version # <<>>
    /\ ddb_primary_key(PackageKey(BUILD_SYSTEM, dep.name, dep.version[1])) \notin DOMAIN store
    /\ runs' = [runs EXCEPT ![r].linkTodo = @ \ {dep}]
    /\ UNCHANGED <<store, nruns, codec>>
    /\ TrackStep({dep})

\* (mutant) the error takes the crate back out of every consumers set
add_consumer_error_rollback(r) ==
  /\ runs[r].pc = "link"
  /\ \E dep \in runs[r].linkTodo :
    /\ dep.version # <<>>
    /\ runs' = [runs EXCEPT ![r] = failed(runs[r])]
    /\ store' = [k \in DOMAIN store |->
                   IF KEY_CONSUMERS \in DOMAIN store[k]
                   THEN ddb_delete_consumer(store, k, to_fq_key(pkg_key_of(runs[r])))[k]
                   ELSE store[k]]
    /\ UNCHANGED <<nruns, codec>>
    /\ TrackStep({})

\* add_consumer_to_dependency, any other store error: try_join_all returns Err
add_consumer_error(r) ==
  /\ runs[r].pc = "link"
  /\ \E dep \in runs[r].linkTodo :
    /\ dep.version # <<>>
    /\ runs' = [runs EXCEPT ![r] = failed(runs[r])]
    /\ UNCHANGED <<store, nruns, codec>>
    /\ TrackStep({})

\* (mutant) the write is issued while link futures are still pending
update_project_before_join(r) ==
  /\ runs[r].pc = "link"
  /\ LET key == ddb_primary_key(pkg_key_of(runs[r]))
         old == get_item(store, key)
     IN  /\ store' = WriteItem(store, key, updated_item(old, runs[r].bpn, runs[r].tracked))
         /\ runs' = [runs EXCEPT ![r] = enter_reconcile([runs[r] EXCEPT !.old = old])]
  /\ UNCHANGED <<nruns, codec>>
  /\ TrackStep({})

\* update_project: the write of the crate's own record returned the old item
update_project(r) ==
  /\ runs[r].pc = "link" /\ runs[r].linkTodo = {}
  /\ LET key == ddb_primary_key(pkg_key_of(runs[r]))
         old == get_item(store, key)
     IN  /\ store' = WriteItem(store, key, updated_item(old, runs[r].bpn, runs[r].tracked))
         /\ runs' = [runs EXCEPT ![r] = enter_reconcile([runs[r] EXCEPT !.old = old])]
  /\ UNCHANGED <<nruns, codec>>
  /\ TrackStep({})

\* update_project: the write failed
update_project_error(r) ==
  /\ runs[r].pc = "link" /\ runs[r].linkTodo = {}
  /\ runs' = [runs EXCEPT ![r] = failed(runs[r])]
  /\ UNCHANGED <<store, nruns, codec>>
  /\ TrackStep({})

\* rm_consumer_from_dependency: the conditional DELETE succeeded, or failed its
\* condition (the record is absent), which is Ok as well
rm_consumer_from_dependency(r) ==
  /\ runs[r].pc = "rm"
  /\ \E old_dep_key \in runs[r].rmTodo :
    /\ LET consumer_key == to_fq_key(pkg_key_of(runs[r]))
           dep_primary_key == ddb_primary_key(old_dep_key)
           run == [runs[r] EXCEPT !.rmTodo = @ \ {old_dep_key}]
       IN  /\ store' = IF dep_primary_key \in DOMAIN store
                       THEN ddb_delete_consumer(store, dep_primary_key, consumer_key)
                       ELSE store
           /\ runs' = [runs EXCEPT ![r] = IF run.rmTodo = {} THEN enter_rebuild(run) ELSE run]
    /\ UNCHANGED <<nruns, codec>>
    /\ TrackStep({})

\* rm_consumer_from_dependency: any other store error
rm_consumer_error(r) ==
  /\ runs[r].pc = "rm"
  /\ \E old_dep_key \in runs[r].rmTodo :
    /\ runs' = [runs EXCEPT ![r] = failed(runs[r])]
    /\ UNCHANGED <<store, nruns, codec>>
    /\ TrackStep({})

\* rebuild_consumer: get_item returned; start_build is issued next or not at all
rebuild_consumer(r) ==
  /\ runs[r].pc = "rebuild"
  /\ \E consumer_key \in runs[r].rbTodo :
    /\ LET primary_key == to_fq_key(pkg_key_of(runs[r]))
           item == get_item(store, rebuild_lookup_key(pkg_key_of(runs[r]), consumer_key))
           run == [runs[r] EXCEPT !.rbTodo = @ \ {consumer_key}]
       IN  runs' = [runs EXCEPT ![r] =
             IF needs_rebuild(item, primary_key)
             THEN [run EXCEPT !.rbStart = @ \cup
                     {[consumer |-> consumer_key,
                       project |-> item[1][KEY_CODE_BUILD_PROJECT_NAME]]}]
             ELSE join_rebuild(run)]
    /\ UNCHANGED <<store, nruns, codec>>
    /\ TrackStep({})

\* rebuild_consumer: get_item failed
rebuild_consumer_error(r) ==
  /\ runs[r].pc = "rebuild"
  /\ \E consumer_key \in runs[r].rbTodo :
    /\ runs' = [runs EXCEPT ![r] = failed(runs[r])]
    /\ UNCHANGED <<store, nruns, codec>>
    /\ TrackStep({})

\* rebuild_consumer: codebuild.start_build returned Ok
start_build(r) ==
  /\ runs[r].pc = "rebuild"
  /\ \E b \in runs[r].rbStart :
    /\ runs' = [runs EXCEPT ![r] =
         join_rebuild([runs[r] EXCEPT !.rbStart = @ \ {b}, !.started = @ \cup {b}])]
    /\ UNCHANGED <<store, nruns, codec>>
    /\ TrackStep({})

\* rebuild_consumer: codebuild.start_build returned an error
start_build_error(r) ==
  /\ runs[r].pc = "rebuild"
  /\ \E b \in runs[r].rbStart :
    /\ runs' = [runs EXCEPT ![r] = failed(runs[r])]
    /\ UNCHANGED <<store, nruns, codec>>
    /\ TrackStep({})

(***************************************************************************)
(* Initial tables.  The table outlives the invocations; each seed is a     *)
(* table that failure-free invocations with an empty manifest, one per     *)
(* crate, build from the empty table.                                      *)
(***************************************************************************)
Seed(crates) ==
  [k \in { ddb_primary_key(PackageKey(BUILD_SYSTEM, c.name, c.version)) : c \in crates }
     |-> PutAttr(EmptyItem, KEY_CODE_BUILD_PROJECT_NAME, "proj-1")]

\* crate a depends on b and c, which record it as their consumer
SeedEdges ==
  LET key(n) == ddb_primary_key(PackageKey(BUILD_SYSTEM, n, Version))
      fq(n) == get_encoded_primary_key(n, Version)
      a == <<"a">>  b == <<"b">>  c == <<"c">>
  IN  [k \in DOMAIN Seed(Crates) |->
         IF k = key(a) THEN PutAttr(Seed(Crates)[k], KEY_DEPENDENCIES, {fq(b), fq(c)})
         ELSE PutAttr(Seed(Crates)[k], KEY_CONSUMERS, {fq(a)})]

(***************************************************************************)
(* The key codec on its own: a key is encoded, the string is decoded       *)
(***************************************************************************)
\* characters of the components: a letter, the two delimiters and the line feed
CodecChars == {"a", "/", ":", LineFeed}
CodecStrings == UNION { [1..n -> CodecChars] : n \in 1..MaxLen }

NoCodec == [pc |-> "off"]

\* PackageKey::to_fq_key
codec_encode ==
  /\ codec.pc = "key"
  /\ codec' = [pc |-> "fq", key |-> codec.key, fq |-> to_fq_key(codec.key)]
  /\ UNCHANGED <<store, runs, nruns, hist>>

\* PackageKey::from_fq_key
codec_decode ==
  /\ codec.pc = "fq"
  /\ codec' = [pc |-> "decoded", key |-> codec.key, fq |-> codec.fq,
               res |-> from_fq_key(codec.fq)]
  /\ UNCHANGED <<store, runs, nruns, hist>>

(***************************************************************************)
(* Spec: invocations overlap freely, any call may fail                     *)
(***************************************************************************)
Init ==
  /\ store \in {EmptyStore, Seed(ConcCrates)}
  /\ runs = [r \in RunIds |-> IdleRun]
  /\ nruns = 0
  /\ hist = HistOff
  /\ codec = NoCodec

Next ==
  \/ \E r \in RunIds, crt \in ConcCrates, deps \in ConcManifests, bpn \in Projects :
       update_metadata(r, crt, deps, bpn)
  \/ \E r \in RunIds : manifest_error(r)
  \/ \E r \in RunIds : add_consumer_unversioned(r)
  \/ \E r \in RunIds : add_consumer_ok(r)
  \/ \E r \in RunIds : add_consumer_not_tracked(r)
  \/ \E r \in RunIds : add_consumer_error(r)
  \/ \E r \in RunIds : update_project(r)
  \/ \E r \in RunIds : update_project_error(r)
  \/ \E r \in RunIds : rm_consumer_from_dependency(r)
  \/ \E r \in RunIds : rm_consumer_error(r)
  \/ \E r \in RunIds : rebuild_consumer(r)
  \/ \E r \in RunIds : rebuild_consumer_error(r)
  \/ \E r \in RunIds : start_build(r)
  \/ \E r \in RunIds : start_build_error(r)

Spec == Init /\ [][Next]_vars

(***************************************************************************)
(* SpecSeq: one invocation at a time (slot 1), no call fails               *)
(***************************************************************************)
InitSeq ==
  /\ store \in {EmptyStore, SeedEdges}
  /\ runs = [r \in RunIds |-> IdleRun]
  /\ nruns = 0
  /\ hist = HistInit(store)
  /\ codec = NoCodec

NextSeq ==
  \/ \E crt \in Crates, deps \in Manifests, bpn \in Projects :
       update_metadata(1, crt, deps, bpn)
  \/ add_consumer_unversioned(1)
  \/ add_consumer_ok(1)
  \/ add_consumer_not_tracked(1)
  \/ update_project(1)
  \/ rm_consumer_from_dependency(1)
  \/ rebuild_consumer(1)
  \/ start_build(1)

SpecSeq == InitSeq /\ [][NextSeq]_vars

(***************************************************************************)
(* SpecRetry: one invocation at a time (slot 1), any call may fail, and an *)
(* invocation may repeat the input of the one before it                    *)
(***************************************************************************)
NextRetry ==
  \/ \E crt \in Crates, deps \in Manifests, bpn \in Projects :
       update_metadata(1, crt, deps, bpn)
  \/ retry_update_metadata(1)
  \/ manifest_error(1)
  \/ add_consumer_unversioned(1)
  \/ add_consumer_ok(1)
  \/ add_consumer_not_tracked(1)
  \/ add_consumer_error(1)
  \/ update_project(1)
  \/ update_project_error(1)
  \/ rm_consumer_from_dependency(1)
  \/ rm_consumer_error(1)
  \/ rebuild_consumer(1)
  \/ rebuild_consumer_error(1)
  \/ start_build(1)
  \/ start_build_error(1)

SpecRetry == InitSeq /\ [][NextRetry]_vars

(***************************************************************************)
(* SpecCodec: every key of the component strings is encoded and decoded    *)
(***************************************************************************)
InitCodec ==
  /\ store = EmptyStore
  /\ runs = [r \in RunIds |-> IdleRun]
  /\ nruns = 0
  /\ hist = HistOff
  /\ codec \in { [pc |-> "key", key |-> PackageKey(e, n, v)] :
                   e \in CodecStrings, n \in CodecStrings, v \in CodecStrings }

NextCodec ==
  \/ codec_encode
  \/ codec_decode

SpecCodec == InitCodec /\ [][NextCodec]_vars

(***************************************************************************)
(* SpecConc: invocations overlap freely, no call fails                     *)
(***************************************************************************)
\* crate a depends on b, which records it as its consumer: the table that a
\* run for a declaring b leaves from Seed(ConcCrates)
SeedConcEdge ==
  LET key(n) == ddb_primary_key(PackageKey(BUILD_SYSTEM, n, Version))
      fq(n) == get_encoded_primary_key(n, Version)
      a == <<"a">>  b == <<"b">>
  IN  [k \in DOMAIN Seed(ConcCrates) |->
         IF k = key(a) THEN PutAttr(Seed(ConcCrates)[k], KEY_DEPENDENCIES, {fq(b)})
         ELSE PutAttr(Seed(ConcCrates)[k], KEY_CONSUMERS, {fq(a)})]

InitConc ==
  /\ store \in {EmptyStore, SeedConcEdge}
  /\ runs = [r \in RunIds |-> IdleRun]
  /\ nruns = 0
  /\ hist = HistOff
  /\ codec = NoCodec

NextConc ==
  \/ \E r \in RunIds, crt \in ConcCrates, deps \in ConcManifests, bpn \in Projects :
       update_metadata(r, crt, deps, bpn)
  \/ \E r \in RunIds : add_consumer_unversioned(r)
  \/ \E r \in RunIds : add_consumer_ok(r)
  \/ \E r \in RunIds : add_consumer_not_tracked(r)
  \/ \E r \in RunIds : update_project(r)
  \/ \E r \in RunIds : rm_consumer_from_dependency(r)
  \/ \E r \in RunIds : rebuild_consumer(r)
  \/ \E r \in RunIds : start_build(r)

SpecConc == InitConc /\ [][NextConc]_vars

(***************************************************************************)
(* SpecApartOk: invocations for different crates overlap freely, those for *)
(* the same crate follow one another (one build of a project at a time),   *)
(* no call fails                                                           *)
(***************************************************************************)
\* update_metadata is invoked while no invocation for the same crate is running
update_metadata_apart(r, crt, deps, bpn) ==
  /\ \A o \in RunIds \ {r} : Finished(runs[o]) \/ runs[o].crt # crt
  /\ update_metadata(r, crt, deps, bpn)

\* a call of invocation r returns without error
ReturnOk(r) ==
  \/ add_consumer_unversioned(r)
  \/ add_consumer_ok(r)
  \/ add_consumer_not_tracked(r)
  \/ update_project(r)
  \/ rm_consumer_from_dependency(r)
  \/ rebuild_consumer(r)
  \/ start_build(r)

NextApartOk ==
  \/ \E r \in RunIds, crt \in ConcCrates, deps \in ConcManifests, bpn \in Projects :
       update_metadata_apart(r, crt, deps, bpn)
  \/ \E r \in RunIds : add_consumer_unversioned(r)
  \/ \E r \in RunIds : add_consumer_ok(r)
  \/ \E r \in RunIds : add_consumer_not_tracked(r)
  \/ \E r \in RunIds : update_project(r)
  \/ \E r \in RunIds : rm_consumer_from_dependency(r)
  \/ \E r \in RunIds : rebuild_consumer(r)
  \/ \E r \in RunIds : start_build(r)

SpecApartOk == InitConc /\ [][NextApartOk]_vars

(***************************************************************************)
(* SpecApart: invocations for different crates overlap freely, those for   *)
(* the same crate follow one another, any call may fail                    *)
(***************************************************************************)
NextApart ==
  \/ \E r \in RunIds, crt \in ConcCrates, deps \in ConcManifests, bpn \in Projects :
       update_metadata_apart(r, crt, deps, bpn)
  \/ \E r \in RunIds : manifest_error(r)
  \/ \E r \in RunIds : add_consumer_unversioned(r)
  \/ \E r \in RunIds : add_consumer_ok(r)
  \/ \E r \in RunIds : add_consumer_not_tracked(r)
  \/ \E r \in RunIds : add_consumer_error(r)
  \/ \E r \in RunIds : update_project(r)
  \/ \E r \in RunIds : update_project_error(r)
  \/ \E r \in RunIds : rm_consumer_from_dependency(r)
  \/ \E r \in RunIds : rm_consumer_error(r)
  \/ \E r \in RunIds : rebuild_consumer(r)
  \/ \E r \in RunIds : rebuild_consumer_error(r)
  \/ \E r \in RunIds : start_build(r)
  \/ \E r \in RunIds : start_build_error(r)

\* the empty table, and tables that invocations which follow one another
\* build from it
InitApart ==
  /\ store \in {EmptyStore, Seed(ConcCrates), SeedConcEdge}
  /\ runs = [r \in RunIds |-> IdleRun]
  /\ nruns = 0
  /\ hist = HistOff
  /\ codec = NoCodec

SpecApart == InitApart /\ [][NextApart]_vars

(***************************************************************************)
(* SpecLive: Spec, and every call that was issued returns, with or without *)
(* an error                                                                *)
(***************************************************************************)
\* a call of invocation r returns
Return(r) ==
  \/ ReturnOk(r)
  \/ add_consumer_error(r)
  \/ update_project_error(r)
  \/ rm_consumer_error(r)
  \/ rebuild_consumer_error(r)
  \/ start_build_error(r)

SpecLive == Init /\ [][Next]_vars /\ \A r \in RunIds : WF_vars(Return(r))

(***************************************************************************)
(* Reading the table and the history                                       *)
(***************************************************************************)
KeyOfCrate(c) == ddb_primary_key(PackageKey(BUILD_SYSTEM, c.name, c.version))
FqOfCrate(c) == to_fq_key(PackageKey(BUILD_SYSTEM, c.name, c.version))
\* the fully-qualified key of the record stored under a structured key
FqOfKey(k) == k.package_name \o <<KEY_NAME_AND_VERSION_DELIMITER>> \o k.version
\* the record a fully-qualified key of a set names (<<>> when there is none)
RecordOf(st, fq) ==
  IF from_fq_key(fq).ok THEN get_item(st, ddb_primary_key(from_fq_key(fq).key)) ELSE <<>>
Deps(st, k) == old_set(get_item(st, k), KEY_DEPENDENCIES)
Consumers(st, k) == old_set(get_item(st, k), KEY_CONSUMERS)

\* the invocation of the sequential specifications
Run == runs[1]
P == FqOfCrate(Run.crt)
PKey == KeyOfCrate(Run.crt)
Committed == Run.pc \in {"rm", "rebuild", "done"}
Done == Run.pc = "done"
VersionedDeps == { d \in hist.input.deps : d.version # <<>> }
DepKey(d) == ddb_primary_key(PackageKey(BUILD_SYSTEM, d.name, d.version[1]))
DepFq(d) == get_encoded_primary_key(d.name, d.version[1])
\* the declared dependencies that were tracked when the invocation started
DeclaredTracked == { DepFq(d) : d \in { x \in VersionedDeps : DepKey(x) \in DOMAIN hist.store0 } }

(***************************************************************************)
(* C1 (SpecSeq).  Cascade correctness: when a failure-free run for P is    *)
(* done, every consumer C of P's previously recorded consumers whose       *)
(* record has P's key in its dependencies and has a build project name got *)
(* exactly one build start, for that project.                              *)
(***************************************************************************)
C1_CascadeStartsEachValidConsumer ==
  Done =>
    \A c \in old_set(Run.old, KEY_CONSUMERS) :
      needs_rebuild(RecordOf(store, c), P) =>
        Cardinality({ b \in Run.started :
                        /\ b.consumer = c
                        /\ b.project = RecordOf(store, c)[1][KEY_CODE_BUILD_PROJECT_NAME] }) = 1

(***************************************************************************)
(* C2 (Spec).  Cascade race guard: the rebuild step for a recorded         *)
(* consumer C whose own dependencies do not contain P's key, read in the   *)
(* very table that step reads, never decides to start C's build project.   *)
(***************************************************************************)
StaleConsumer(st, pkg_fq, consumer_fq) ==
  LET rec == RecordOf(st, consumer_fq)
  IN  rec = <<>> \/ pkg_fq \notin old_set(rec, KEY_DEPENDENCIES)

ProjectOf(st, consumer_fq) ==
  LET rec == RecordOf(st, consumer_fq)
  IN  IF rec # <<>> /\ KEY_CODE_BUILD_PROJECT_NAME \in DOMAIN rec[1]
      THEN {rec[1][KEY_CODE_BUILD_PROJECT_NAME]} ELSE {}

C2_NoStartForStaleConsumer ==
  [][\A r \in RunIds : \A b \in runs'[r].rbStart \ runs[r].rbStart :
       ~ ( /\ StaleConsumer(store, FqOfCrate(runs[r].crt), b.consumer)
           /\ b.project \in ProjectOf(store, b.consumer) )]_vars

(***************************************************************************)
(* C3 (SpecSeq).  Stale edge cleanup: when a run for P is done, P's        *)
(* dependencies are exactly the declared dependencies that are tracked,    *)
(* P's key is in the consumers of no dependency that P had and no longer   *)
(* has, and it is removed from the consumers of no other record.           *)
(***************************************************************************)
C3_StaleEdgeCleanup ==
  Done =>
    /\ Deps(store, PKey) = DeclaredTracked
    /\ \A k \in DOMAIN store :
         IF FqOfKey(k) \in Deps(hist.store0, PKey) \ DeclaredTracked
         THEN P \notin Consumers(store, k)
         ELSE P \in Consumers(hist.store0, k) => P \in Consumers(store, k)

\* P had two tracked dependencies that list it, and declared only one of them
C3_Witness ==
  /\ Done
  /\ \E d1, d2 \in Deps(hist.store0, PKey) :
       /\ d1 # d2
       /\ DeclaredTracked = {d1}
       /\ \A d \in {d1, d2} : RecordOf(hist.store0, d) # <<>>
                              /\ P \in old_set(RecordOf(hist.store0, d), KEY_CONSUMERS)
       /\ Deps(store, PKey) = {d1}
       /\ P \in old_set(RecordOf(store, d1), KEY_CONSUMERS)
       /\ P \notin old_set(RecordOf(store, d2), KEY_CONSUMERS)

(***************************************************************************)
(* C4 (SpecSeq).  A tracked dependency edge is bidirectional after one     *)
(* run: when the run for P is done, every dependency D declared at a       *)
(* version whose record existed without consumers at the start has P's key *)
(* in its consumers, and P's dependencies contain D's key.                 *)
(***************************************************************************)
FreshDeps ==
  { d \in VersionedDeps :
      /\ DepKey(d) \in DOMAIN hist.store0
      /\ KEY_CONSUMERS \notin DOMAIN hist.store0[DepKey(d)] }

C4_EdgeIsBidirectional ==
  Done => \A d \in FreshDeps :
            /\ P \in Consumers(store, DepKey(d))
            /\ DepFq(d) \in Deps(store, PKey)

C4_Witness ==
  Done /\ \E d \in FreshDeps : DepKey(d) # PKey /\ P \in Consumers(store, DepKey(d))

(***************************************************************************)
(* C5 (SpecSeq).  Graph invariant at quiescence: whenever no run is in     *)
(* progress, for all tracked A and B, B's key is in A's consumers iff A's  *)
(* key is in B's dependencies.                                             *)
(***************************************************************************)
GraphInvariant(st) ==
  \A a, b \in DOMAIN st :
    FqOfKey(b) \in Consumers(st, a) <=> FqOfKey(a) \in Deps(st, b)

C5_GraphInvariantAtQuiescence == Finished(Run) => GraphInvariant(store)

\* two runs from the empty table have left an edge between two crates
C5_Witness ==
  /\ hist.origin = EmptyStore /\ Done /\ nruns = 2
  /\ \E a, b \in DOMAIN store : a # b /\ FqOfKey(b) \in Consumers(store, a)

(***************************************************************************)
(* C6 (SpecSeq).  An untracked dependency is a no-op.  As claimed: once    *)
(* P's record is committed, no dependency D that the link step found       *)
(* without a record has a record, and P's dependencies do not contain D.   *)
(* As amended: the same, except that D = P has the record that the commit  *)
(* of this very run creates; until the commit no such D has a record.      *)
(***************************************************************************)
C6_UntrackedIsNoOp_AsClaimed ==
  Committed => \A d \in hist.untracked :
                 /\ DepKey(d) \notin DOMAIN store
                 /\ DepFq(d) \notin Deps(store, PKey)

C6_UntrackedIsNoOp ==
  \A d \in hist.untracked :
    /\ DepKey(d) \in DOMAIN store => Committed /\ DepKey(d) = PKey
    /\ DepFq(d) \notin Deps(store, PKey)

C6_Witness ==
  Done /\ \E d \in hist.untracked : DepKey(d) # PKey /\ DepKey(d) \notin DOMAIN store

(***************************************************************************)
(* C7 (SpecRetry).  Idempotence: when update_metadata, invoked again with  *)
(* the input of the run before it that ended well, is done without         *)
(* failure, the table is the one that the first run left.                  *)
(***************************************************************************)
C7_SecondRunChangesNothing ==
  (Done /\ hist.retry # <<>> /\ hist.retry[1].status = "done")
    => store = hist.retry[1].store1

(***************************************************************************)
(* C8 (SpecRetry).  Retry after failure: when update_metadata, invoked     *)
(* again with the input of the run before it that failed, is done without  *)
(* failure, P's key is in the consumers of no dependency that P had when   *)
(* the failed run started and no longer has.                               *)
(***************************************************************************)
C8_RetryRemovesDroppedEdges ==
  (Done /\ hist.retry # <<>> /\ hist.retry[1].status = "failed")
    => \A k \in DOMAIN store :
         FqOfKey(k) \in Deps(hist.retry[1].store0, PKey) \ Deps(store, PKey)
           => P \notin Consumers(store, k)

(***************************************************************************)
(* C9 (SpecSeq).  An empty dependency set is an absent attribute: no       *)
(* record has a dependencies attribute that is the empty set, and once a   *)
(* run that tracked no declared dependency has committed P's record, the   *)
(* record exists and has no dependencies attribute.                        *)
(***************************************************************************)
C9_EmptyDependenciesAreAbsent ==
  /\ \A k \in DOMAIN store :
       KEY_DEPENDENCIES \in DOMAIN store[k] => store[k][KEY_DEPENDENCIES] # {}
  /\ (Committed /\ Run.tracked = {})
       => PKey \in DOMAIN store /\ KEY_DEPENDENCIES \notin DOMAIN store[PKey]

\* the record had dependencies before, and the run declared something
C9_Witness ==
  /\ Done /\ Run.tracked = {} /\ hist.input.deps # {}
  /\ Deps(hist.store0, PKey) # {}
  /\ KEY_DEPENDENCIES \notin DOMAIN store[PKey]

(***************************************************************************)
(* C10 (SpecCodec).  Round trip of the key encoding.  As claimed: for      *)
(* every key of three non-empty components without "/" and ":", decoding   *)
(* the encoded key succeeds and returns the three components, and the      *)
(* structured keys agree.  As amended: the same for components that hold   *)
(* no line feed either.                                                    *)
(***************************************************************************)
Components(k) == {k.build_system, k.name, k.version}
Holds(str, ch) == \E i \in 1..Len(str) : str[i] = ch
NoDelimiter(k) ==
  \A c \in Components(k) :
    /\ c # <<>>
    /\ ~Holds(c, KEY_BUILD_SYSTEM_AND_NAME_DELIMITER)
    /\ ~Holds(c, KEY_NAME_AND_VERSION_DELIMITER)
RoundTrips ==
  /\ codec.res.ok
  /\ codec.res.key = codec.key
  /\ ddb_primary_key(codec.res.key) = ddb_primary_key(codec.key)

C10_RoundTrip_AsClaimed ==
  (codec.pc = "decoded" /\ NoDelimiter(codec.key)) => RoundTrips

C10_RoundTrip ==
  ( /\ codec.pc = "decoded"
    /\ NoDelimiter(codec.key)
    /\ \A c \in Components(codec.key) : ~Holds(c, LineFeed) ) => RoundTrips

C10_Witness ==
  /\ codec.pc = "decoded" /\ NoDelimiter(codec.key)
  /\ \A c \in Components(codec.key) : ~Holds(c, LineFeed)
  /\ Len(codec.key.name) > 1
  /\ RoundTrips

(***************************************************************************)
(* C11 (SpecCodec).  Decode rejects malformed keys: from_fq_key returns an *)
(* error for every string that is not one "/" followed later by one ":"    *)
(* that separate three non-empty parts.                                    *)
(***************************************************************************)
Places(str, ch) == { i \in 1..Len(str) : str[i] = ch }

WellFormedKey(str) ==
  /\ Cardinality(Places(str, KEY_BUILD_SYSTEM_AND_NAME_DELIMITER)) = 1
  /\ Cardinality(Places(str, KEY_NAME_AND_VERSION_DELIMITER)) = 1
  /\ \E p \in Places(str, KEY_BUILD_SYSTEM_AND_NAME_DELIMITER),
        q \in Places(str, KEY_NAME_AND_VERSION_DELIMITER) :
       1 < p /\ p + 1 < q /\ q < Len(str)

C11_DecodeRejectsMalformed ==
  (codec.pc = "decoded" /\ ~WellFormedKey(codec.fq)) => ~codec.res.ok

(***************************************************************************)
(* C12 (Spec).  Stage ordering within one run: the commit of P's record is *)
(* issued when no link task of the run is pending, it stores exactly the   *)
(* dependency keys whose conditional ADD succeeded (a link task adds the   *)
(* key to the tracked ones iff the dependency has a version and a record,  *)
(* and then P is in that record's consumers), it hands the previous record *)
(* to the run, and removals and rebuild checks are issued only by a run    *)
(* that holds the commit's answer.                                         *)
(***************************************************************************)
CommitStep(r) == runs[r].pc = "link" /\ runs'[r].pc \in {"rm", "rebuild", "done"}
LinkStep(r) ==
  runs[r].pc = "link" /\ runs'[r].pc = "link" /\ runs'[r].linkTodo # runs[r].linkTodo

C12_StageOrdering ==
  [][\A r \in RunIds :
       LET run == runs[r]
           key == KeyOfCrate(run.crt)
       IN  /\ CommitStep(r) =>
                /\ run.linkTodo = {}
                /\ Deps(store', key) = run.tracked
                /\ runs'[r].old = get_item(store, key)
           /\ LinkStep(r) =>
                \A dep \in run.linkTodo \ runs'[r].linkTodo :
                  IF dep.version # <<>> /\ DepKey(dep) \in DOMAIN store
                  THEN /\ runs'[r].tracked = run.tracked \cup {DepFq(dep)}
                       /\ FqOfCrate(run.crt) \in Consumers(store', DepKey(dep))
                  ELSE runs'[r].tracked = run.tracked /\ store' = store
           /\ run.pc = "link" =>
                run.old = <<>> /\ run.rmTodo = {} /\ run.rbTodo = {} /\ run.rbStart = {}
           /\ (runs'[r].rmTodo # run.rmTodo \/ runs'[r].rbTodo # run.rbTodo
               \/ runs'[r].rbStart # run.rbStart) =>
                run.pc \in {"link", "rm", "rebuild"} /\ runs'[r].pc # "link"]_vars

\* a run has committed its tracked dependencies and has a removal to issue
C12_Witness ==
  \E r \in RunIds :
    /\ runs[r].pc = "rm" /\ runs[r].linkTodo = {}
    /\ runs[r].tracked # {} /\ runs[r].rmTodo # {}
    /\ Deps(store, KeyOfCrate(runs[r].crt)) = runs[r].tracked

(***************************************************************************)
(* C13 (SpecRetry).  A fatal error aborts without rollback.  The step in   *)
(* which a run fails in the link or removal stage changes nothing in the   *)
(* table and is taken by a run that has issued no build start, and a       *)
(* failed run changes the table no more.  After a failure in the link      *)
(* stage (a link task or the commit itself met a store error) every record *)
(* is as it was when the run started but for P's key added to consumers    *)
(* sets, so P's record was not written by the commit; after a failure in   *)
(* the removal stage P's committed record is in place.                     *)
(***************************************************************************)
FailedAt(stage) == Run.pc = "failed" /\ Run.at = stage

OnlyConsumerEdgesAdded ==
  /\ DOMAIN store = DOMAIN hist.store0
  /\ \A k \in DOMAIN store :
       /\ RemoveAttr(store[k], KEY_CONSUMERS) = RemoveAttr(hist.store0[k], KEY_CONSUMERS)
       /\ Consumers(hist.store0, k) \subseteq Consumers(store, k)
       /\ Consumers(store, k) \subseteq Consumers(hist.store0, k) \cup {P}

CommittedRecordInPlace ==
  /\ PKey \in DOMAIN store
  /\ store[PKey][KEY_CODE_BUILD_PROJECT_NAME] = hist.input.bpn
  /\ Deps(store, PKey) = DeclaredTracked

C13_FatalErrorAbortsWithoutRollback ==
  /\ [](FailedAt("link") => OnlyConsumerEdgesAdded)
  /\ [](FailedAt("rm") => CommittedRecordInPlace)
  /\ [][ /\ (Run.pc \in {"link", "rm"} /\ Run'.pc = "failed") =>
              store' = store /\ Run.rbStart = {} /\ Run.started = {}
         /\ Run.pc = "failed" => store' = store ]_vars

\* the run failed in the link stage after it was added to a consumers set
C13_Witness ==
  /\ FailedAt("link")
  /\ \E k \in DOMAIN store : k # PKey /\ P \in Consumers(store, k) \ Consumers(hist.store0, k)

(***************************************************************************)
(* C14 (SpecSeq).  A failed condition is never an error.  In SpecSeq the   *)
(* only store failures are failed conditions: no run is ever failed; the   *)
(* link task whose conditional ADD meets no record leaves the run in its   *)
(* link stage with the table and the tracked keys as they were; and a run  *)
(* whose link tasks are all answered can commit.                           *)
(***************************************************************************)
ConditionFailedStep ==
  /\ LinkStep(1)
  /\ \E dep \in Run.linkTodo \ Run'.linkTodo :
       dep.version # <<>> /\ DepKey(dep) \notin DOMAIN store

OneWay(st, p, d) == FqOfKey(d) \in Deps(st, p) => FqOfKey(p) \in Consumers(st, d)

BrokenByRemoval(r, p, d) ==
  /\ runs[r].pc = "rm" /\ KeyOfCrate(runs[r].crt) = p
  /\ \E k \in runs[r].rmTodo \ runs'[r].rmTodo : ddb_primary_key(k) = d
  /\ FqOfKey(d) \notin runs[r].tracked
  /\ FqOfKey(d) \in Deps(store, p)

BrokenByCommit(r, p, d) ==
  /\ CommitStep(r) /\ KeyOfCrate(runs[r].crt) = p
  /\ FqOfKey(d) \in runs[r].tracked
  /\ FqOfKey(p) \notin Consumers(store, d)

C15_EdgeBreaksOnlyByChurn ==
  [][\A p, d \in DOMAIN store' :
       (OneWay(store, p, d) /\ ~OneWay(store', p, d)) =>
         \E r \in RunIds : BrokenByRemoval(r, p, d) \/ BrokenByCommit(r, p, d)]_vars

\* both runs for the same package are done, they tracked different sets, and
\* an edge is broken
C15_Witness ==
  /\ runs[1].pc = "done" /\ runs[2].pc = "done"
  /\ runs[1].crt = runs[2].crt
  /\ runs[1].tracked # runs[2].tracked
  /\ \E d \in DOMAIN store : ~OneWay(store, KeyOfCrate(runs[1].crt), d)

(***************************************************************************)
(* C16 (SpecApartOk).  Concurrent updates of two packages that reference   *)
(* each other.  As claimed: a failure-free run for P and one for another   *)
(* package Q, each depending on the other, can interleave so that both are *)
(* done and the graph invariant is false; the formula states that outcome  *)
(* of two such runs.  As amended: the invariant can be false only while a  *)
(* run is in progress; whenever no run is in progress it holds, whatever   *)
(* the interleaving, so no interleaving has the claimed outcome.           *)
(***************************************************************************)
Quiescent == \A r \in RunIds : Finished(runs[r])

\* both runs are done, for different packages, and each tracked the other
MutualRunsDone ==
  /\ runs[1].pc = "done" /\ runs[2].pc = "done"
  /\ runs[1].crt # runs[2].crt
  /\ FqOfCrate(runs[2].crt) \in runs[1].tracked
  /\ FqOfCrate(runs[1].crt) \in runs[2].tracked

C16_TransientWitness ==
  /\ ~Finished(runs[1]) /\ ~Finished(runs[2]) /\ runs[1].crt # runs[2].crt
  /\ ~GraphInvariant(store)

(***************************************************************************)
(* C17 (Spec).  Frame of one run: a step of a run for P changes, in every  *)
(* record but the one P's commit writes, nothing but the membership of P's *)
(* key in consumers (no record appears or disappears, dependencies and the *)
(* build project name stay); the commit step changes only P's own record,  *)
(* and in it only the build project name and dependencies, not consumers.  *)
(***************************************************************************)
ConsumersAttr(st, k) ==
  IF k \in DOMAIN st /\ KEY_CONSUMERS \in DOMAIN st[k] THEN <<st[k][KEY_CONSUMERS]>> ELSE <<>>

OnlyOwnKeyInConsumers(k, pfq) ==
  /\ k \in DOMAIN store /\ k \in DOMAIN store'
  /\ RemoveAttr(store[k], KEY_CONSUMERS) = RemoveAttr(store'[k], KEY_CONSUMERS)
  /\ (Consumers(store, k) \ Consumers(store', k)) \cup
     (Consumers(store', k) \ Consumers(store, k)) \subseteq {pfq}

CommitFrame(p) ==
  /\ p \in DOMAIN store'
  /\ ConsumersAttr(store', p) = ConsumersAttr(store, p)
  /\ DOMAIN store'[p] \subseteq
       (IF p \in DOMAIN store THEN DOMAIN store[p] ELSE {})
         \cup {KEY_CODE_BUILD_PROJECT_NAME, KEY_DEPENDENCIES}
  /\ \A k \in DOMAIN store \cup DOMAIN store' :
       k # p => k \in DOMAIN store /\ k \in DOMAIN store' /\ store'[k] = store[k]

C17_FrameOfOneRun ==
  [][store' # store =>
       \E r \in RunIds :
         /\ runs'[r] # runs[r]
         /\ IF CommitStep(r) THEN CommitFrame(KeyOfCrate(runs[r].crt))
            ELSE \A k \in DOMAIN store \cup DOMAIN store' :
                   OnlyOwnKeyInConsumers(k, FqOfCrate(runs[r].crt))]_vars

\* a commit has rewritten the dependencies of a record that has consumers
C17_Witness ==
  \E r \in RunIds :
    LET p == KeyOfCrate(runs[r].crt)
    IN  /\ runs[r].pc \in {"rm", "rebuild", "done"}
        /\ old_set(runs[r].old, KEY_CONSUMERS) # {}
        /\ Consumers(store, p) = old_set(runs[r].old, KEY_CONSUMERS)
        /\ Deps(store, p) # old_set(runs[r].old, KEY_DEPENDENCIES)
        /\ \E d \in DOMAIN store : d # p /\ FqOfKey(p) \in Consumers(store, d)

(***************************************************************************)
(* C18 (Spec).  Records are created only by their own commit and are never *)
(* deleted: no step removes a key from the table, and a step that adds key *)
(* K to the table is the commit step of a run for exactly K.               *)
(***************************************************************************)
C18_RecordsOnlyFromOwnCommit ==
  [][ /\ DOMAIN store \subseteq DOMAIN store'
      /\ \A k \in DOMAIN store' \ DOMAIN store :
           \E r \in RunIds : CommitStep(r) /\ KeyOfCrate(runs[r].crt) = k ]_vars

\* the commit of a run has created the run's record, and the table has no
\* record for the other crate
C18_Witness ==
  \E r \in RunIds :
    /\ runs[r].pc = "done" /\ runs[r].old = <<>>
    /\ KeyOfCrate(runs[r].crt) \in DOMAIN store
    /\ \E c \in ConcCrates : KeyOfCrate(c) \notin DOMAIN store

(***************************************************************************)
(* C19 (SpecLive).  Termination without deadlock: when every call returns, *)
(* every run, whatever other runs do, eventually is done or failed; a run  *)
(* in progress always has a call that can return without error, whatever   *)
(* the other runs have done; and a run never goes back to an earlier       *)
(* stage.                                                                  *)
(***************************************************************************)
StageRank(pc) ==
  CASE pc = "idle" -> 0
    [] pc = "link" -> 1
    [] pc = "rm" -> 2
    [] pc = "rebuild" -> 3
    [] pc = "done" -> 4
    [] pc = "failed" -> 4

C19_EveryRunTerminates ==
  /\ \A r \in RunIds : (~Finished(runs[r])) ~> Finished(runs[r])
  /\ [](\A r \in RunIds : ~Finished(runs[r]) => ENABLED ReturnOk(r))
  /\ [][\A r \in RunIds :
          ~Finished(runs[r]) => StageRank(runs'[r].pc) >= StageRank(runs[r].pc)]_vars

\* a run went through every stage and started a build while another run is
\* in progress
C19_Witness ==
  \E r, o \in RunIds :
    /\ r # o
    /\ runs[r].pc = "done" /\ runs[r].started # {}
    /\ ~Finished(runs[o])

(***************************************************************************)
(* C20 (SpecApart).  One-way edge invariant: when runs for the same        *)
(* package do not overlap, in every state, also in the middle of a run and *)
(* after failed runs, every key D in P's dependencies is the key of a      *)
(* record whose consumers hold P's key.                                    *)
(***************************************************************************)
C20_DependenciesNeverAhead ==
  \A p \in DOMAIN store :
    \A dfq \in Deps(store, p) :
      FqOfKey(p) \in old_set(RecordOf(store, dfq), KEY_CONSUMERS)

\* a run in its link stage is in a consumers set that its record's
\* dependencies do not mirror yet, while a run for another crate that has
\* committed dependencies is in progress
C20_Witness ==
  \E r, o \in RunIds :
    /\ runs[r].pc = "link" /\ runs[r].tracked # {}
    /\ \E d \in DOMAIN store :
         /\ FqOfKey(d) \in runs[r].tracked
         /\ FqOfCrate(runs[r].crt) \in Consumers(store, d)
         /\ FqOfKey(d) \notin Deps(store, KeyOfCrate(runs[r].crt))
    /\ ~Finished(runs[o]) /\ runs[o].crt # runs[r].crt
    /\ Deps(store, KeyOfCrate(runs[o].crt)) # {}

(***************************************************************************)
(* C21 (Spec).  Persisted dependencies are tracked: in every state, under  *)
(* any interleaving and any failures, every key in a record's dependencies *)
(* decodes to the key of a record of the table.                            *)
(***************************************************************************)
C21_PersistedDependenciesAreTracked ==
  \A p \in DOMAIN store :
    \A dfq \in Deps(store, p) : RecordOf(store, dfq) # <<>>

\* a record has dependencies while a crate of the manifests has no record,
\* after an invocation that failed
C21_Witness ==
  /\ \E p \in DOMAIN store : Deps(store, p) # {}
  /\ \E c \in ConcCrates : KeyOfCrate(c) \notin DOMAIN store
  /\ \E r \in RunIds : runs[r].pc = "failed"

====
